---------------------------- MODULE Spec2Model ----------------------------
(***************************************************************************)
(* A model of the SIEM Query Generator (src/app.py): model selection       *)
(* (initialize_ai), prompt construction and response parsing               *)
(* (generate_siem_data), and the Generate-button handler that calls both   *)
(* and renders the result.                                                 *)
(*                                                                         *)
(* Texts the code inspects character by character (the model's response,   *)
(* JSON strings) are sequences of one-character strings.  Texts the code   *)
(* only passes on (the API key, the user request, the language label, the  *)
(* lines of the prompt template) are TLA+ strings.                         *)
(***************************************************************************)
EXTENDS Naturals, Sequences, FiniteSets

(***************************************************************************)
(* Bounds of the model.                                                    *)
(***************************************************************************)
\* The longest recommendations list a drawn response carries.
MaxRecs == 5
\* The longest prefix cut from a well-formed object to make a truncated one.
MaxCut == 3

(***************************************************************************)
(* Python str operations used by generate_siem_data.                       *)
(***************************************************************************)
\* The characters str.strip() removes (those of them the model's texts use).
PyWhitespace == {" ", "\t", "\n", "\r", "\f"}

RECURSIVE LStrip(_)
LStrip(s) ==
    IF s # <<>> /\ Head(s) \in PyWhitespace THEN LStrip(Tail(s)) ELSE s

RECURSIVE RStrip(_)
RStrip(s) ==
    IF s # <<>> /\ s[Len(s)] \in PyWhitespace
    THEN RStrip(SubSeq(s, 1, Len(s) - 1))
    ELSE s

\* str.strip()
Strip(s) == RStrip(LStrip(s))

StartsWith(s, p) == Len(p) <= Len(s) /\ SubSeq(s, 1, Len(p)) = p

EndsWith(s, p) ==
    Len(p) <= Len(s) /\ SubSeq(s, Len(s) - Len(p) + 1, Len(s)) = p

\* str.removeprefix(p)
RemovePrefix(s, p) ==
    IF StartsWith(s, p) THEN SubSeq(s, Len(p) + 1, Len(s)) ELSE s

\* str.removesuffix(p)
RemoveSuffix(s, p) ==
    IF p # <<>> /\ EndsWith(s, p) THEN SubSeq(s, 1, Len(s) - Len(p)) ELSE s

\* The backquote character (U+0060), which a TLA+ string cannot hold.
Backquote == "BACKQUOTE"

\* The markdown fence opener: three backquotes and json.
FenceOpen == <<Backquote, Backquote, Backquote, "j", "s", "o", "n">>

\* The markdown fence closer: three backquotes.
FenceClose == <<Backquote, Backquote, Backquote>>

\* A plausible slip: slicing the fence off without looking for it.
CleanTextSliced(text) ==
    LET t == Strip(text)
    IN  Strip(SubSeq(t, Len(FenceOpen) + 1, Len(t) - Len(FenceClose)))

\* A plausible slip: the closer is looked for before the final trim only if
\* the opener was there.
CleanTextPaired(text) ==
    LET t == Strip(text)
    IN  IF StartsWith(t, FenceOpen)
        THEN Strip(RemoveSuffix(RemovePrefix(t, FenceOpen), FenceClose))
        ELSE t

\* response.text.strip().removeprefix(FenceOpen).removesuffix(FenceClose).strip()
CleanText(text) ==
    Strip(RemoveSuffix(RemovePrefix(Strip(text), FenceOpen), FenceClose))

(***************************************************************************)
(* Python values, as json.loads builds them.  Every value is a record of   *)
(* the same four fields: t its type, s its characters (str, and the        *)
(* digits of an int), k its keys (dict, in insertion order), e its         *)
(* elements (list) or its values (dict, in the order of k).                *)
(***************************************************************************)
MkStr(s) == [t |-> "str", s |-> s, k |-> <<>>, e |-> <<>>]

\* An int, by its decimal digits (int("-0") is 0).
MkInt(s) ==
    [t |-> "int", s |-> IF s = <<"-", "0">> THEN <<"0">> ELSE s,
     k |-> <<>>, e |-> <<>>]

\* None, True, False, and the floats nan, inf, -inf
MkConst(name) == [t |-> name, s |-> <<>>, k |-> <<>>, e |-> <<>>]

MkList(e) == [t |-> "list", s |-> <<>>, k |-> <<>>, e |-> e]

MkDict(k, e) == [t |-> "dict", s |-> <<>>, k |-> k, e |-> e]

None == MkConst("None")

HasKey(d, key) == \E i \in 1..Len(d.k) : d.k[i] = key

\* dict.get(key, default)
DictGet(d, key, default) ==
    IF HasKey(d, key)
    THEN d.e[CHOOSE i \in 1..Len(d.k) : d.k[i] = key]
    ELSE default

\* d[key] = val: a key already there keeps its place and takes the new value.
DictPut(d, key, val) ==
    IF HasKey(d, key)
    THEN MkDict(d.k, [d.e EXCEPT ![CHOOSE i \in 1..Len(d.k) : d.k[i] = key] = val])
    ELSE MkDict(Append(d.k, key), Append(d.e, val))

\* Python equality (==) of two values, dicts compared whatever the order of their keys
\* (one level deep; the values under a key are compared as built).
PyEq(a, b) ==
    IF a.t = "dict" /\ b.t = "dict"
    THEN /\ {a.k[i] : i \in 1..Len(a.k)} = {b.k[i] : i \in 1..Len(b.k)}
         /\ \A i \in 1..Len(a.k) : a.e[i] = DictGet(b, a.k[i], None)
    ELSE a = b

(***************************************************************************)
(* json.loads (the standard library's decoder, strict mode), on the        *)
(* characters the model's texts use.  A decoding step returns ok, the      *)
(* value and the index after it; ok = FALSE is json.JSONDecodeError.       *)
(***************************************************************************)
JsonWhitespace == {" ", "\t", "\n", "\r"}

\* Characters below 0x20: not allowed unescaped inside a JSON string.
ControlChars == {"\t", "\n", "\r", "\f"}

Digits == {"0", "1", "2", "3", "4", "5", "6", "7", "8", "9"}

DecodeError == [ok |-> FALSE, val |-> None, next |-> 0]

Decoded(val, next) == [ok |-> TRUE, val |-> val, next |-> next]

RECURSIVE SkipWs(_, _)
SkipWs(s, i) ==
    IF i <= Len(s) /\ s[i] \in JsonWhitespace THEN SkipWs(s, i + 1) ELSE i

\* Whether the characters of w stand in s from index i on.
MatchAt(s, i, w) ==
    i + Len(w) - 1 <= Len(s) /\ SubSeq(s, i, i + Len(w) - 1) = w

\* The character a backslash escape stands for (\b and \uXXXX are not drawn).
Unescape(c) ==
    IF c = "n" THEN "\n"
    ELSE IF c = "t" THEN "\t"
    ELSE IF c = "r" THEN "\r"
    ELSE IF c = "f" THEN "\f"
    ELSE c

\* py_scanstring: i is the index after the opening quote.
RECURSIVE ScanString(_, _, _)
ScanString(s, i, acc) ==
    IF i > Len(s) THEN DecodeError
    ELSE IF s[i] = "\"" THEN Decoded(MkStr(acc), i + 1)
    ELSE IF s[i] = "\\"
         THEN IF i + 1 <= Len(s) /\ s[i + 1] \in {"\"", "\\", "/", "n", "t", "r", "f"}
              THEN ScanString(s, i + 2, Append(acc, Unescape(s[i + 1])))
              ELSE DecodeError
    ELSE IF s[i] \in ControlChars THEN DecodeError
    ELSE ScanString(s, i + 1, Append(acc, s[i]))

\* The end of the digits that start at i.
RECURSIVE SkipDigits(_, _)
SkipDigits(s, i) ==
    IF i <= Len(s) /\ s[i] \in Digits THEN SkipDigits(s, i + 1) ELSE i

\* NUMBER_RE's integer part, -?(0|[1-9][0-9]*): the index after it, or 0.
\* (No drawn text has a fraction or an exponent after digits.)
IntEnd(s, i) ==
    LET j == IF i <= Len(s) /\ s[i] = "-" THEN i + 1 ELSE i
    IN  IF j > Len(s) \/ s[j] \notin Digits THEN 0
        ELSE IF s[j] = "0" THEN j + 1
        ELSE SkipDigits(s, j)

RECURSIVE ScanOnce(_, _)
RECURSIVE ObjectItems(_, _, _)
RECURSIVE ArrayItems(_, _, _)

\* JSONObject: i is the index after "{".
JSONObject(s, i) ==
    LET j == SkipWs(s, i)
    IN  IF j > Len(s) THEN DecodeError
        ELSE IF s[j] = "}" THEN Decoded(MkDict(<<>>, <<>>), j + 1)
        ELSE IF s[j] = "\"" THEN ObjectItems(s, j + 1, MkDict(<<>>, <<>>))
        ELSE DecodeError

\* One "key": value pair and what follows; i is the index after the key's
\* opening quote.
ObjectItems(s, i, d) ==
    LET key == ScanString(s, i, <<>>)
        c == SkipWs(s, key.next)
        v == ScanOnce(s, SkipWs(s, c + 1))
        n == SkipWs(s, v.next)
        m == SkipWs(s, n + 1)
        d2 == DictPut(d, key.val.s, v.val)
    IN  IF ~key.ok THEN DecodeError
        ELSE IF c > Len(s) \/ s[c] # ":" THEN DecodeError
        ELSE IF ~v.ok THEN DecodeError
        ELSE IF n > Len(s) THEN DecodeError
        ELSE IF s[n] = "}" THEN Decoded(d2, n + 1)
        ELSE IF s[n] # "," THEN DecodeError
        ELSE IF m > Len(s) \/ s[m] # "\"" THEN DecodeError
        ELSE ObjectItems(s, m + 1, d2)

\* JSONArray: i is the index after "[".
JSONArray(s, i) ==
    LET j == SkipWs(s, i)
    IN  IF j <= Len(s) /\ s[j] = "]" THEN Decoded(MkList(<<>>), j + 1)
        ELSE ArrayItems(s, j, <<>>)

\* One element and what follows; i is the index of the element.
ArrayItems(s, i, acc) ==
    LET v == ScanOnce(s, i)
        n == SkipWs(s, v.next)
        acc2 == Append(acc, v.val)
    IN  IF ~v.ok THEN DecodeError
        ELSE IF n > Len(s) THEN DecodeError
        ELSE IF s[n] = "]" THEN Decoded(MkList(acc2), n + 1)
        ELSE IF s[n] # "," THEN DecodeError
        ELSE ArrayItems(s, SkipWs(s, n + 1), acc2)

\* scanner.py_make_scanner's _scan_once
ScanOnce(s, i) ==
    IF i > Len(s) THEN DecodeError
    ELSE IF s[i] = "\"" THEN ScanString(s, i + 1, <<>>)
    ELSE IF s[i] = "{" THEN JSONObject(s, i + 1)
    ELSE IF s[i] = "[" THEN JSONArray(s, i + 1)
    ELSE IF MatchAt(s, i, <<"n", "u", "l", "l">>) THEN Decoded(None, i + 4)
    ELSE IF MatchAt(s, i, <<"t", "r", "u", "e">>)
         THEN Decoded(MkConst("True"), i + 4)
    ELSE IF MatchAt(s, i, <<"f", "a", "l", "s", "e">>)
         THEN Decoded(MkConst("False"), i + 5)
    ELSE IF IntEnd(s, i) # 0
         THEN Decoded(MkInt(SubSeq(s, i, IntEnd(s, i) - 1)), IntEnd(s, i))
    ELSE IF MatchAt(s, i, <<"N", "a", "N">>) THEN Decoded(MkConst("nan"), i + 3)
    ELSE IF MatchAt(s, i, <<"I", "n", "f", "i", "n", "i", "t", "y">>)
         THEN Decoded(MkConst("inf"), i + 8)
    ELSE IF MatchAt(s, i, <<"-", "I", "n", "f", "i", "n", "i", "t", "y">>)
         THEN Decoded(MkConst("-inf"), i + 9)
    ELSE DecodeError

\* json.loads(s): the value, leading and trailing whitespace allowed, nothing
\* else after it ("Extra data").
JsonLoads(s) ==
    LET r == ScanOnce(s, SkipWs(s, 1))
    IN  IF r.ok /\ SkipWs(s, r.next) = Len(s) + 1
        THEN [ok |-> TRUE, val |-> r.val]
        ELSE [ok |-> FALSE, val |-> None]

(***************************************************************************)
(* The texts a model response is drawn from: a body (a JSON text or        *)
(* something else) and the markdown fence and whitespace around it.        *)
(***************************************************************************)
RECURSIVE Concat(_)
Concat(parts) ==
    IF parts = <<>> THEN <<>> ELSE Head(parts) \o Concat(Tail(parts))

\* A JSON string literal for the characters s, escaped as json.dumps does.
RECURSIVE EscapeChars(_)
EscapeChars(s) ==
    IF s = <<>> THEN <<>>
    ELSE (IF Head(s) = "\"" THEN <<"\\", "\"">>
          ELSE IF Head(s) = "\\" THEN <<"\\", "\\">>
          ELSE IF Head(s) = "\n" THEN <<"\\", "n">>
          ELSE <<Head(s)>>) \o EscapeChars(Tail(s))

Quoted(s) == <<"\"">> \o EscapeChars(s) \o <<"\"">>

\* The items' literals with "," and the whitespace sp between them.
RECURSIVE JoinQuoted(_, _)
JoinQuoted(items, sp) ==
    IF items = <<>> THEN <<>>
    ELSE IF Len(items) = 1 THEN Quoted(items[1])
    ELSE Quoted(items[1]) \o <<",">> \o sp \o JoinQuoted(Tail(items), sp)

QueryKey == <<"q", "u", "e", "r", "y">>

RecsKey == <<"r", "e", "c", "o", "m", "m", "e", "n", "d", "a", "t", "i", "o", "n", "s">>

\* The text {"query": q, "recommendations": [r1, ..., rn]}, with the
\* whitespace sp after each ":" and ",".
ShapedText(q, recs, sp) ==
    Concat(<< <<"{">>, Quoted(QueryKey), <<":">>, sp, Quoted(q), <<",">>, sp,
              Quoted(RecsKey), <<":">>, sp, <<"[">>, JoinQuoted(recs, sp),
              <<"]">>, <<"}">> >>)

\* Query strings: a plain one, and one whose JSON literal needs escapes.
QueryTexts == { <<"a">>, <<"\"", "\n", "|">> }

RecTexts == { <<"x">>, <<"y">> }

\* x, y, x, ... of length n
Alternating(n) == [i \in 1..n |-> IF i % 2 = 1 THEN <<"x">> ELSE <<"y">>]

\* Recommendation lists: every list of at most two entries, and one of each
\* greater length up to MaxRecs.
RecLists ==
    {<<>>} \cup {<<r>> : r \in RecTexts}
           \cup {<<r1, r2>> : r1 \in RecTexts, r2 \in RecTexts}
           \cup {Alternating(n) : n \in 3..MaxRecs}

Separators == { <<>>, <<" ">> }

NoText == <<>>

Body(kind, text, q, recs) ==
    [kind |-> kind, text |-> text, query |-> q, recs |-> recs]

\* Well-formed objects of the shape the prompt asks for.
ShapedBodies ==
    { Body("shaped", ShapedText(q, recs, sp), q, recs) :
        q \in QueryTexts, recs \in RecLists, sp \in Separators }

Prose ==
    <<"I", " ", "c", "a", "n", "n", "o", "t", " ", "h", "e", "l", "p", " ",
      "w", "i", "t", "h", " ", "t", "h", "a", "t", ".">>

SampleObject == ShapedText(<<"a">>, << <<"x">> >>, <<>>)

\* Texts that are not JSON: empty, prose, an object cut short.
InvalidBodies ==
    { Body("invalid", t, NoText, <<>>) :
        t \in {NoText, Prose}
              \cup {SubSeq(SampleObject, 1, Len(SampleObject) - c) : c \in 1..MaxCut} }

\* JSON arrays.
ArrayBodies ==
    { Body("array", t, NoText, <<>>) :
        t \in { <<"[", "]">>, <<"[">> \o Quoted(<<"x">>) \o <<"]">> } }

\* Other JSON values that are no object.
ScalarBodies ==
    { Body("scalar", t, NoText, <<>>) :
        t \in { Quoted(<<"a">>), <<"1">>, <<"n", "u", "l", "l">> } }

\* Well-formed objects of another shape: empty, no "query", no
\* "recommendations", "recommendations" a string.
OtherObjectBodies ==
    { Body("object", t, NoText, <<>>) :
        t \in { <<"{", "}">>,
                Concat(<< <<"{">>, Quoted(RecsKey), <<":", "[">>, Quoted(<<"x">>),
                          <<"]", "}">> >>),
                Concat(<< <<"{">>, Quoted(QueryKey), <<":">>, Quoted(<<"a">>),
                          <<"}">> >>),
                Concat(<< <<"{">>, Quoted(QueryKey), <<":">>, Quoted(<<"a">>),
                          <<",">>, Quoted(RecsKey), <<":">>, Quoted(<<"x", "y">>),
                          <<"}">> >>),
                Concat(<< <<"{">>, Quoted(QueryKey), <<":">>, Quoted(<<"a">>),
                          <<",">>, Quoted(RecsKey), <<":", "7", "}">> >>) } }

\* Bodies that carry a fence of their own.
FencedBodies ==
    { Body("fenced", t, NoText, <<>>) :
        t \in { FenceOpen \o <<"\n">> \o SampleObject \o <<"\n">> \o FenceClose,
                FenceOpen \o SampleObject,
                SampleObject \o FenceClose } }

Bodies ==
    ShapedBodies \cup InvalidBodies \cup ArrayBodies \cup ScalarBodies
                 \cup OtherObjectBodies \cup FencedBodies

Paddings == { <<>>, <<"\n">> }

\* What stands around a body: a fence opener and closer (each there or not),
\* whitespace outside the fence markers and whitespace between them and the body.
Wrappers ==
    [opener : BOOLEAN, closer : BOOLEAN, outer : Paddings, inner : Paddings]

Wrap(text, w) ==
    Concat(<< w.outer, IF w.opener THEN FenceOpen ELSE <<>>, w.inner, text,
              w.inner, IF w.closer THEN FenceClose ELSE <<>>, w.outer >>)

(***************************************************************************)
(* The prompt of generate_siem_data: the pieces the f-strings concatenate, *)
(* in order.  (The backquotes around the examples of guardrail 3 are left  *)
(* out of its text.)                                                       *)
(***************************************************************************)
Persona ==
    "You are a Senior Security Detection Engineer. Your stack focus is Microsoft Entra ID, Azure, AWS, and Google SecOps."

TranslateBefore ==
    "Translate the following Natural Language threat hunting request into a highly optimized "

TranslateAfter == " query."

GuardrailHeader ==
    "CRITICAL SOC GUARDRAILS (YOU MUST INJECT THESE INTO THE QUERY):"

GuardrailTime == "1. Time scoping: Restrict the search to the last 24 hours."

GuardrailService ==
    "2. Exclude service accounts: Filter out users/accounts starting with \"svc_\"."

GuardrailLimit ==
    "3. Performance limit: Limit the output to 100 results (e.g., | take 100, | head 100, etc.)."

RecommendationLines ==
    << "INVESTIGATIVE RECOMMENDATIONS:",
       "Provide 3 to 4 logical next-step investigative search terms, pivots, or logic steps based on the context of the user's input.",
       "(e.g., if checking IPs, suggest \"Auth Success vs Failure\", \"Device IDs\")." >>

OutputFormatLines ==
    << "OUTPUT FORMAT:",
       "You must return a valid JSON object with EXACTLY two keys: \"query\" and \"recommendations\".",
       "\"query\" must be a string containing the raw code.",
       "\"recommendations\" must be a list of 3-4 strings.",
       "Do not wrap the JSON in markdown code blocks. Just return the raw JSON string." >>

Separator == "\n\nUser Request: "

\* A plausible slip: a guardrail line lost from the template.
SystemPromptShort(language) ==
    << Persona, TranslateBefore, language, TranslateAfter,
       GuardrailHeader, GuardrailTime, GuardrailLimit >>
    \o RecommendationLines \o OutputFormatLines

\* system_prompt: the lines of the template, the language label in its place.
SystemPrompt(language) ==
    << Persona, TranslateBefore, language, TranslateAfter,
       GuardrailHeader, GuardrailTime, GuardrailService, GuardrailLimit >>
    \o RecommendationLines \o OutputFormatLines

\* The argument of model.generate_content
BuildPrompt(request, language) ==
    SystemPrompt(language) \o <<Separator, request>>

(***************************************************************************)
(* What generate_siem_data returns for a response text.                    *)
(***************************************************************************)
\* "-- Error parsing AI response. Please try again."
ParseErrorQuery ==
    <<"-", "-", " ", "E", "r", "r", "o", "r", " ", "p", "a", "r", "s", "i", "n",
      "g", " ", "A", "I", " ", "r", "e", "s", "p", "o", "n", "s", "e", ".", " ",
      "P", "l", "e", "a", "s", "e", " ", "t", "r", "y", " ", "a", "g", "a", "i",
      "n", ".">>

\* The dict of the except branch.
FallbackResult ==
    MkDict(<<QueryKey, RecsKey>>, <<MkStr(ParseErrorQuery), MkList(<<>>)>>)

\* The try block and its except branch: the decoded value, whatever its type,
\* or the fallback when json.loads raises JSONDecodeError.
ParseResponse(text) ==
    LET r == JsonLoads(CleanText(text))
    IN  IF r.ok THEN r.val ELSE FallbackResult

(***************************************************************************)
(* The backend (google.generativeai), as initialize_ai sees it.            *)
(***************************************************************************)
PreferredModel == "gemini-1.5-flash"

ModelInfo(name, has, methods) ==
    [name |-> name, has_methods |-> has, methods |-> methods]

Embedding == ModelInfo("models/embedding-001", TRUE, {"embedContent"})

GeminiPro == ModelInfo("models/gemini-pro", TRUE, {"generateContent", "countTokens"})

Flash8b == ModelInfo("models/gemini-1.5-flash-8b", TRUE, {"generateContent"})

\* A model object without the supported_generation_methods attribute.
Legacy == ModelInfo("models/legacy", FALSE, {})

\* What genai.list_models() may return.
ModelLists ==
    { <<>>, <<Embedding>>, <<Legacy, Embedding>>, <<GeminiPro>>,
      <<Embedding, Flash8b, GeminiPro>> }

\* getattr(model, "supported_generation_methods", [])
SupportedMethods(m) == IF m.has_methods THEN m.methods ELSE {}

SupportsGenerate(m) == "generateContent" \in SupportedMethods(m)

\* available_models: the names of the listed models that support generateContent.
AvailableModels(listed) ==
    LET kept == SelectSeq(listed, SupportsGenerate)
    IN  [i \in 1..Len(kept) |-> kept[i].name]

Exc(type, by) == [type |-> type, by |-> by]

NoExc == Exc("none", "none")

\* Failures of genai.GenerativeModel(name).
BindErrors == {"NotFound", "ValueError"}

\* Failures of genai.list_models().
ListErrors == {"ServiceUnavailable"}

\* Failures of model.generate_content(prompt).
GenerateErrors == {"InvalidArgument", "ResourceExhausted"}

Call(fn, arg) == [fn |-> fn, arg |-> arg]

NoModel == "none"

(***************************************************************************)
(* One run of the script: the widgets' values, and the position of the     *)
(* Generate-button handler.                                                *)
(***************************************************************************)
Languages ==
    {"KQL (Microsoft Sentinel)", "YARA-L (Google SecOps)", "Sigma", "Splunk SPL"}

ApiKeys == {"", "AIza-key"}

Requests ==
    {"", "failed logins from new countries", "users activating PIM"}

VARIABLES
    api_key,        \* the sidebar's text input
    nl_input,       \* the text area
    siem_language,  \* the select box
    generate_btn,   \* whether the button was pressed
    pc,             \* where the handler is
    calls,          \* the backend calls made so far, in order
    bind_exc,       \* the failure of the preferred bind, caught by initialize_ai
    listed,         \* what list_models returned
    model,          \* the model name of the handle initialize_ai returned
    prompt,         \* the prompt given to generate_content
    sample,         \* how the response was made: its body and what wraps it
    gen_exc,        \* the failure generate_content raised, if it did
    response,       \* response.text
    result,         \* what generate_siem_data returned
    exc,            \* the failure that left the handler
    ui              \* what the handler rendered, in order

vars ==
    <<api_key, nl_input, siem_language, generate_btn, pc, calls, bind_exc,
      listed, model, prompt, sample, gen_exc, response, result, exc, ui>>

inputs == <<api_key, nl_input, siem_language, generate_btn>>

NoSample ==
    [body |-> Body("none", NoText, NoText, <<>>),
     wrap |-> [opener |-> FALSE, closer |-> FALSE, outer |-> <<>>, inner |-> <<>>]]

\* listed: list_models not called, or what it returned, or that it raised.
NotListed == [state |-> "not called", models |-> <<>>]

Widget(w, text, v) == [w |-> w, text |-> text, v |-> v]

Init ==
    /\ api_key \in ApiKeys
    /\ nl_input \in Requests
    /\ siem_language \in Languages
    /\ generate_btn \in BOOLEAN
    /\ pc = "start"
    /\ calls = <<>>
    /\ bind_exc = NoExc
    /\ listed = NotListed
    /\ model = NoModel
    /\ prompt = <<>>
    /\ sample = NoSample
    /\ gen_exc = NoExc
    /\ response = NoText
    /\ result = None
    /\ exc = NoExc
    /\ ui = <<>>

\* if generate_btn: (not pressed)
NotPressed ==
    /\ pc = "start"
    /\ ~generate_btn
    /\ pc' = "done"
    /\ UNCHANGED <<inputs, calls, bind_exc, listed, model, prompt, sample,
                   gen_exc, response, result, exc, ui>>

\* if not api_key: st.error(...)
MissingApiKey ==
    /\ pc = "start"
    /\ generate_btn
    /\ api_key = ""
    /\ ui' = Append(ui, Widget("error",
                               "Please provide a Gemini API Key in the sidebar.",
                               None))
    /\ pc' = "done"
    /\ UNCHANGED <<inputs, calls, bind_exc, listed, model, prompt, sample,
                   gen_exc, response, result, exc>>

\* elif not nl_input: st.warning(...)
MissingRequest ==
    /\ pc = "start"
    /\ generate_btn
    /\ api_key # ""
    /\ nl_input = ""
    /\ ui' = Append(ui, Widget("warning",
                               "Please describe a threat to generate a query.",
                               None))
    /\ pc' = "done"
    /\ UNCHANGED <<inputs, calls, bind_exc, listed, model, prompt, sample,
                   gen_exc, response, result, exc>>

\* A plausible slip: the checks of the inputs left out.
EnterSpinnerUnchecked ==
    /\ pc = "start"
    /\ generate_btn
    /\ pc' = "initialize_ai"
    /\ UNCHANGED <<inputs, calls, bind_exc, listed, model, prompt, sample,
                   gen_exc, response, result, exc, ui>>

\* else: with st.spinner(...): the handler goes on to initialize_ai
EnterSpinner ==
    /\ pc = "start"
    /\ generate_btn
    /\ api_key # ""
    /\ nl_input # ""
    /\ pc' = "initialize_ai"
    /\ UNCHANGED <<inputs, calls, bind_exc, listed, model, prompt, sample,
                   gen_exc, response, result, exc, ui>>

\* A plausible slip: the models are enumerated whether the bind raised or not.
InitializeAIPreferredEager ==
    /\ pc = "initialize_ai"
    /\ calls' = calls \o <<Call("configure", api_key),
                           Call("GenerativeModel", PreferredModel)>>
    /\ \/ /\ model' = PreferredModel
          /\ pc' = "except"
          /\ UNCHANGED bind_exc
       \/ /\ \E e \in BindErrors : bind_exc' = Exc(e, PreferredModel)
          /\ pc' = "except"
          /\ UNCHANGED model
    /\ UNCHANGED <<inputs, listed, prompt, sample, gen_exc, response, result,
                   exc, ui>>

\* initialize_ai, to the end of its try block: configure, then bind the
\* preferred model; the bind returns the handle or raises.
InitializeAIPreferred ==
    /\ pc = "initialize_ai"
    /\ calls' = calls \o <<Call("configure", api_key),
                           Call("GenerativeModel", PreferredModel)>>
    /\ \/ /\ model' = PreferredModel
          /\ pc' = "generate_siem_data"
          /\ UNCHANGED bind_exc
       \/ /\ \E e \in BindErrors : bind_exc' = Exc(e, PreferredModel)
          /\ pc' = "except"
          /\ UNCHANGED model
    /\ UNCHANGED <<inputs, listed, prompt, sample, gen_exc, response, result,
                   exc, ui>>

\* A plausible slip: a failure of its own raised in place of the caught one.
RaiseNew(caught) == Exc("NoModelAvailable", "initialize_ai")

\* The bare raise of the except block: the failure being handled.
ReRaise(caught) == caught

\* initialize_ai's except block: enumerate the models, keep those that
\* support generateContent, and bind the first; with none kept, raise again.
InitializeAIFallback ==
    /\ pc = "except"
    /\ \/ \E e \in ListErrors :
            /\ calls' = Append(calls, Call("list_models", ""))
            /\ listed' = [state |-> "raised", models |-> <<>>]
            /\ exc' = Exc(e, "list_models")
            /\ pc' = "raised"
            /\ UNCHANGED model
       \/ \E l \in ModelLists :
            LET available_models == AvailableModels(l)
            IN  /\ listed' = [state |-> "returned", models |-> l]
                /\ IF available_models = <<>>
                   THEN /\ calls' = Append(calls, Call("list_models", ""))
                        /\ exc' = ReRaise(bind_exc)
                        /\ pc' = "raised"
                        /\ UNCHANGED model
                   ELSE /\ calls' = calls \o
                              <<Call("list_models", ""),
                                Call("GenerativeModel", available_models[1])>>
                        /\ \/ /\ model' = available_models[1]
                              /\ pc' = "generate_siem_data"
                              /\ UNCHANGED exc
                           \/ /\ \E e \in BindErrors :
                                    exc' = Exc(e, available_models[1])
                              /\ pc' = "raised"
                              /\ UNCHANGED model
    /\ UNCHANGED <<inputs, bind_exc, prompt, sample, gen_exc, response, result, ui>>

\* A plausible slip: a second completion call when the first does not parse.
GenerateSiemDataRetry ==
    /\ pc = "generate_siem_data"
    /\ prompt' = BuildPrompt(nl_input, siem_language)
    /\ \/ /\ \E e \in GenerateErrors : gen_exc' = Exc(e, "generate_content")
          /\ calls' = Append(calls, Call("generate_content", model))
          /\ exc' = gen_exc'
          /\ pc' = "raised"
          /\ UNCHANGED <<sample, response, result>>
       \/ /\ \E b \in Bodies, w \in Wrappers :
                /\ sample' = [body |-> b, wrap |-> w]
                /\ response' = Wrap(b.text, w)
          /\ calls' = IF JsonLoads(CleanText(response')).ok
                      THEN Append(calls, Call("generate_content", model))
                      ELSE calls \o <<Call("generate_content", model),
                                      Call("generate_content", model)>>
          /\ result' = ParseResponse(response')
          /\ pc' = "render"
          /\ UNCHANGED <<gen_exc, exc>>
    /\ UNCHANGED <<inputs, bind_exc, listed, model, ui>>

\* A plausible slip: the completion call inside the try block, under a broad
\* except.
GenerateSiemDataSwallow ==
    /\ pc = "generate_siem_data"
    /\ prompt' = BuildPrompt(nl_input, siem_language)
    /\ calls' = Append(calls, Call("generate_content", model))
    /\ \/ /\ \E e \in GenerateErrors : gen_exc' = Exc(e, "generate_content")
          /\ result' = FallbackResult
          /\ pc' = "render"
          /\ UNCHANGED <<sample, response, exc>>
       \/ /\ \E b \in Bodies, w \in Wrappers :
                /\ sample' = [body |-> b, wrap |-> w]
                /\ response' = Wrap(b.text, w)
          /\ result' = ParseResponse(response')
          /\ pc' = "render"
          /\ UNCHANGED <<gen_exc, exc>>
    /\ UNCHANGED <<inputs, bind_exc, listed, model, ui>>

\* generate_siem_data: build the prompt and call generate_content once; the
\* call raises, which leaves the function, or returns a response, which is
\* cleaned and decoded.
GenerateSiemData ==
    /\ pc = "generate_siem_data"
    /\ prompt' = BuildPrompt(nl_input, siem_language)
    /\ calls' = Append(calls, Call("generate_content", model))
    /\ \/ /\ \E e \in GenerateErrors : gen_exc' = Exc(e, "generate_content")
          /\ exc' = gen_exc'
          /\ pc' = "raised"
          /\ UNCHANGED <<sample, response, result>>
       \/ /\ \E b \in Bodies, w \in Wrappers :
                /\ sample' = [body |-> b, wrap |-> w]
                /\ response' = Wrap(b.text, w)
          /\ result' = ParseResponse(response')
          /\ pc' = "render"
          /\ UNCHANGED <<gen_exc, exc>>
    /\ UNCHANGED <<inputs, bind_exc, listed, model, ui>>

(***************************************************************************)
(* Rendering the result.                                                   *)
(***************************************************************************)
\* "Error generating query."
DefaultQuery ==
    <<"E", "r", "r", "o", "r", " ", "g", "e", "n", "e", "r", "a", "t", "i", "n",
      "g", " ", "q", "u", "e", "r", "y", ".">>

\* Python truth of a value (if recs:).
Truthy(v) ==
    IF v.t = "list" THEN v.e # <<>>
    ELSE IF v.t = "dict" THEN v.k # <<>>
    ELSE IF v.t = "str" THEN v.s # <<>>
    ELSE IF v.t = "int" THEN \E i \in 1..Len(v.s) : v.s[i] \in Digits \ {"0"}
    ELSE v.t \notin {"None", "False"}

\* Whether a for loop can run over the value.
Iterable(v) == v.t \in {"list", "dict", "str"}

\* What a for loop over the value yields.
Items(v) ==
    IF v.t = "list" THEN v.e
    ELSE IF v.t = "dict" THEN [i \in 1..Len(v.k) |-> MkStr(v.k[i])]
    ELSE [i \in 1..Len(v.s) |-> MkStr(<<v.s[i]>>)]

\* The handler after generate_siem_data returned: the query, then the
\* recommendations or the note that there are none.  result.get raises
\* AttributeError when the result is no dict.
Render ==
    /\ pc = "render"
    /\ LET head == Append(ui, Widget("subheader", siem_language, None))
           query == DictGet(result, QueryKey, MkStr(DefaultQuery))
           recs == DictGet(result, RecsKey, MkList(<<>>))
           shown == head \o <<Widget("code", "sql", query),
                              Widget("subheader", "Investigative Recommendations", None)>>
       IN  IF result.t # "dict"
           THEN /\ ui' = head
                /\ exc' = Exc("AttributeError", "result.get")
                /\ pc' = "raised"
           ELSE IF ~Truthy(recs)
           THEN /\ ui' = Append(shown, Widget("info", "No recommendations generated.", None))
                /\ pc' = "done"
                /\ UNCHANGED exc
           ELSE IF ~Iterable(recs)
           THEN /\ ui' = shown
                /\ exc' = Exc("TypeError", "for rec in recs")
                /\ pc' = "raised"
           ELSE /\ ui' = shown \o [i \in 1..Len(Items(recs)) |->
                                     Widget("markdown", "Pivot", Items(recs)[i])]
                /\ pc' = "done"
                /\ UNCHANGED exc
    /\ UNCHANGED <<inputs, calls, bind_exc, listed, model, prompt, sample,
                   gen_exc, response, result>>

Next ==
    \/ NotPressed
    \/ MissingApiKey
    \/ MissingRequest
    \/ EnterSpinner
    \/ InitializeAIPreferred
    \/ InitializeAIFallback
    \/ GenerateSiemData
    \/ Render

Spec == Init /\ [][Next]_vars

(***************************************************************************)
(* The claims.                                                             *)
(***************************************************************************)
Called(fn) == \E i \in 1..Len(calls) : calls[i].fn = fn

CountCalls(fn) == Cardinality({i \in 1..Len(calls) : calls[i].fn = fn})

\* generate_siem_data returned a value for a response.
Returned == sample.body.kind # "none"

\* The response is the body, with at most whitespace around it.
Unfenced == ~sample.wrap.opener /\ ~sample.wrap.closer

\* The recommendations the prompt asks for at most ("a list of 3-4 strings").
PromptedMaxRecs == 4

StrList(items) == MkList([i \in 1..Len(items) |-> MkStr(items[i])])

Rendered(w) == \E i \in 1..Len(ui) : ui[i].w = w

\* The fallback query as the specification words it.
SpecParseErrorQuery ==
    <<"E", "r", "r", "o", "r", " ", "p", "a", "r", "s", "i", "n", "g", " ", "A",
      "I", " ", "r", "e", "s", "p", "o", "n", "s", "e", ".", " ", "P", "l", "e",
      "a", "s", "e", " ", "t", "r", "y", " ", "a", "g", "a", "i", "n", ".">>

SpecFallback ==
    MkDict(<<QueryKey, RecsKey>>, <<MkStr(SpecParseErrorQuery), MkList(<<>>)>>)

\* C1: for every response that is not a well-formed JSON object (empty,
\* prose, a truncated object, a JSON array), generate_siem_data returns the
\* fallback record {query: "Error parsing AI response. Please try again.",
\* recommendations: []} and does not raise.  The query text is taken with or
\* without the SQL comment mark ("-- ") the code writes before it, so that
\* what refutes the statement is a response for which no fallback record is
\* returned at all.
C1_FallbackOnMalformed ==
    sample.body.kind \in {"invalid", "array"} =>
        /\ pc \in {"render", "done"}
        /\ PyEq(result, SpecFallback) \/ PyEq(result, FallbackResult)

\* C2: for a response that is a well-formed object {"query": Q,
\* "recommendations": [r1..rn]} with n at most 4, the value returned is a dict
\* of exactly these two keys, query being Q and recommendations r1..rn in
\* order.
C2_WellFormedReturnedUnchanged ==
    (sample.body.kind = "shaped" /\ Unfenced
        /\ Len(sample.body.recs) <= PromptedMaxRecs) =>
        /\ result.t = "dict"
        /\ {result.k[i] : i \in 1..Len(result.k)} = {QueryKey, RecsKey}
        /\ Len(result.k) = 2
        /\ DictGet(result, QueryKey, None) = MkStr(sample.body.query)
        /\ DictGet(result, RecsKey, None) = StrList(sample.body.recs)

C2_Witness ==
    /\ pc = "done"
    /\ sample.body.kind = "shaped"
    /\ Unfenced
    /\ sample.body.query = <<"\"", "\n", "|">>
    /\ sample.body.recs = << <<"x">>, <<"y">>, <<"x">>, <<"y">> >>
    /\ Len(response) > Len(sample.body.text)
    /\ DictGet(result, RecsKey, None) = StrList(sample.body.recs)

\* The body carries no fence marker of its own at either end.
BodyUnfenced ==
    /\ ~StartsWith(Strip(sample.body.text), FenceOpen)
    /\ ~EndsWith(Strip(sample.body.text), FenceClose)

\* C3 as stated: for every body, the result on the body inside a fence (an
\* opener, a closer or both, with or without whitespace) is the result on the
\* body alone, and cleaning the cleaned text again changes nothing.
C3_FenceTransparent ==
    (Returned /\ ~Unfenced) =>
        /\ result = ParseResponse(sample.body.text)
        /\ CleanText(CleanText(response)) = CleanText(response)

\* C3 as amended: the same, for every body that carries no fence marker of
\* its own (the code removes one opener and one closer, not every layer).
C3_SingleFenceTransparent ==
    (Returned /\ ~Unfenced /\ BodyUnfenced) =>
        /\ result = ParseResponse(sample.body.text)
        /\ CleanText(response) = Strip(sample.body.text)
        /\ CleanText(CleanText(response)) = CleanText(response)

C3_Witness ==
    /\ pc = "done"
    /\ sample.body.kind = "shaped"
    /\ sample.wrap = [opener |-> TRUE, closer |-> TRUE,
                      outer |-> <<"\n">>, inner |-> <<"\n">>]
    /\ StartsWith(Strip(response), FenceOpen)
    /\ DictGet(result, QueryKey, None) = MkStr(sample.body.query)

\* C4: every value generate_siem_data returns is a record that has a query
\* and whose recommendations are a sequence of at most 4 entries.
C4_ResultShape ==
    Returned =>
        /\ result.t = "dict"
        /\ HasKey(result, QueryKey)
        /\ DictGet(result, RecsKey, MkList(<<>>)).t = "list"
        /\ Len(DictGet(result, RecsKey, MkList(<<>>)).e) <= PromptedMaxRecs

\* initialize_ai has returned or raised.
InitializeAIOver ==
    pc \in {"generate_siem_data", "render", "done", "raised"} /\ calls # <<>>

\* C5: list_models is called if and only if the bind of the preferred model
\* raised; when that bind succeeded the handle returned is the preferred
\* model's.
C5_FallbackIffBindRaised ==
    /\ InitializeAIOver => (Called("list_models") <=> bind_exc # NoExc)
    /\ Called("list_models") => bind_exc # NoExc
    /\ (InitializeAIOver /\ bind_exc = NoExc) => model = PreferredModel

C5_Witness ==
    /\ pc = "generate_siem_data"
    /\ bind_exc = NoExc
    /\ model = PreferredModel
    /\ ~Called("list_models")
    /\ Called("GenerativeModel")

\* C6: when generate_content fails, that failure leaves generate_siem_data
\* and the handler as it is: no result is returned, the fallback included,
\* and neither a query nor recommendations are rendered.
C6_BackendFailurePropagates ==
    gen_exc # NoExc =>
        /\ pc = "raised"
        /\ exc = gen_exc
        /\ result = None
        /\ ~Rendered("code") /\ ~Rendered("markdown") /\ ~Rendered("info")

C6_Witness ==
    /\ gen_exc = Exc("ResourceExhausted", "generate_content")
    /\ exc = gen_exc
    /\ Called("generate_content")

\* C7: for each of the four language labels and every request, the prompt
\* given to the model holds the three guardrail clauses and the label, and
\* ends with the separator followed by the request as typed.
C7_PromptCarriesGuardrails ==
    Called("generate_content") =>
        /\ siem_language \in Languages
        /\ \A clause \in {GuardrailTime, GuardrailService, GuardrailLimit,
                          siem_language} :
              \E i \in 1..(Len(prompt) - 2) : prompt[i] = clause
        /\ prompt[Len(prompt) - 1] = Separator
        /\ prompt[Len(prompt)] = nl_input

C7_Witness ==
    /\ Called("generate_content")
    /\ siem_language = "Splunk SPL"
    /\ nl_input = "users activating PIM"
    /\ prompt[Len(prompt)] = "users activating PIM"

\* C8: when the preferred bind raised and none of the listed models supports
\* generateContent, the failure that leaves initialize_ai is the one the
\* preferred bind raised, and no handle is returned.
C8_EmptyListReraisesOriginal ==
    (/\ listed.state = "returned"
     /\ \A i \in 1..Len(listed.models) :
           ~(listed.models[i].has_methods
               /\ "generateContent" \in listed.models[i].methods)) =>
        /\ pc = "raised"
        /\ bind_exc # NoExc
        /\ bind_exc.by = PreferredModel
        /\ exc = bind_exc
        /\ model = NoModel
        /\ ~Called("generate_content")

C8_Witness ==
    /\ listed = [state |-> "returned", models |-> <<Legacy, Embedding>>]
    /\ pc = "raised"
    /\ exc = Exc("NotFound", PreferredModel)

\* C9: an invocation of generate_siem_data makes exactly one generate_content
\* call, whether the response parses or not, and none before it is invoked.
C9_OneCompletionCall ==
    /\ prompt # <<>> => CountCalls("generate_content") = 1
    /\ prompt = <<>> => CountCalls("generate_content") = 0

C9_Witness ==
    /\ pc = "done"
    /\ sample.body.kind = "invalid"
    /\ result = FallbackResult
    /\ CountCalls("generate_content") = 1

\* C10: the backend is called only when the button was pressed and both the
\* API key and the request are non-empty; with an empty key (checked first)
\* the handler shows the error and with an empty request the warning, calling
\* nothing; and generate_content is called only after initialize_ai returned
\* a handle.
C10_CallsOnlyWithInputs ==
    /\ (calls # <<>> \/ pc \in {"initialize_ai", "except", "generate_siem_data"}) =>
          (generate_btn /\ api_key # "" /\ nl_input # "")
    /\ (pc = "done" /\ generate_btn /\ api_key = "") =>
          (calls = <<>> /\ Len(ui) = 1 /\ ui[1].w = "error")
    /\ (pc = "done" /\ generate_btn /\ api_key # "" /\ nl_input = "") =>
          (calls = <<>> /\ Len(ui) = 1 /\ ui[1].w = "warning")
    /\ (pc = "done" /\ ~generate_btn) => (calls = <<>> /\ ui = <<>>)
    /\ \A j \in 1..Len(calls) :
          calls[j].fn = "generate_content" =>
             /\ \E i \in 1..(j - 1) : calls[i].fn = "configure"
             /\ calls[j - 1].fn = "GenerativeModel"
             /\ calls[j].arg = model
             /\ model # NoModel

C10_Witness ==
    /\ pc = "done"
    /\ generate_btn
    /\ api_key = ""
    /\ nl_input = ""
    /\ Len(ui) = 1
    /\ ui[1].w = "error"
    /\ calls = <<>>

=============================================================================
